---------------------------- MODULE Spec2Model ----------------------------
(***************************************************************************)
(* NewsApp (src/NewsApp/src/main.rs): a View (the eframe render loop, run  *)
(* by the main thread) and a Poller (the thread spawned in main) that      *)
(* exchange Configurations and article batches over two mpsc channels.     *)
(***************************************************************************)
EXTENDS Integers, Sequences, FiniteSets, TLC

(* ------------------------------ bounds -------------------------------- *)
\* Poller cycles (iterations of the loop at main.rs:173) explored.
MaxCycles == 2
\* Configurations the View sends over the explored runs.
MaxConfigSends == 2

(* ------------------------- program constants -------------------------- *)
NumCategories == 7
SliderMin == 60
SliderMax == 3600
ViewDefaultInterval == 600
PollerStartInterval == 1

Categories == 1..NumCategories

\* Categories::to_string, by position in the enumeration.
to_string(c) ==
    CASE c = 1 -> "Business"
      [] c = 2 -> "Entertainment"
      [] c = 3 -> "General"
      [] c = 4 -> "Health"
      [] c = 5 -> "Science"
      [] c = 6 -> "Sports"
      [] c = 7 -> "Technology"

\* all::<Categories>(): the variants in declaration order.
all_Categories == [i \in Categories |-> i]

(* ------------------------------- inputs ------------------------------- *)
\* Checkboxes the user clicks in one frame (one pointer click per frame).
ClickChoices == {{}} \cup {{c} : c \in {4, 6}}
\* What the user does to the slider in one frame: <<>> leaves it alone, <<v>>
\* drags it towards v.
NoDrag == <<>>
DragChoices == {NoDrag, <<30>>, <<4000>>}

Article(t, u) == [title |-> t, url |-> u]
\* Bodies the headline source can answer with, decoded (struct Articles).
Responses ==
    { [articles |-> <<Article("A", "http://a"), Article("B", "http://b")>>],
      [articles |-> <<Article("C", "http://c")>>] }

\* Result<Articles, Box<dyn Error>>
Ok(a) == [ok |-> TRUE, val |-> a]
Err == [ok |-> FALSE, val |-> [articles |-> <<>>]]

VARIABLES
    category_flag,        \* NewsReports.category_flag
    polling_interval,     \* NewsReports.polling_interval
    list_of_articles,     \* NewsReports.list_of_articles
    cfgChan,              \* channel from_gui -> to_news (queued messages)
    batchChan,            \* channel from_news -> to_gui (queued messages)
    default_news_config,  \* the Poller's current configuration
    articles,             \* the Poller's local `articles` (result of the fetch)
    query_addr,           \* get_articles' local query_addr (the last one built)
    pc,                   \* the Poller thread's position in its loop
    main_pc,              \* the main thread's position in main()
    api_key,              \* NEWS_API_KEY is set in the environment
    cycles,               \* loop iterations the Poller has begun
    cycleOps,             \* history: what the Poller did in its current cycle
    cycleStartSent,       \* history: Configurations sent when that cycle began
    sentCfgs,             \* history: every Configuration sent, in order
    sentBatches,          \* history: every batch sent, in order
    received,             \* history: every batch the View took, in order
    view_ran              \* history: the View has run at least one frame

vars == <<category_flag, polling_interval, list_of_articles, cfgChan, batchChan,
          default_news_config, articles, query_addr, pc, main_pc, api_key, cycles, cycleOps,
          cycleStartSent, sentCfgs, sentBatches, received, view_ran>>

viewVars == <<category_flag, polling_interval, list_of_articles>>
pollerVars == <<default_news_config, articles, query_addr, pc, cycles, cycleOps,
                cycleStartSent>>

\* Receiver::try_recv on a channel holding `chan`: the oldest message, or
\* Empty while a sender lives, or Disconnected once every sender is dropped.
try_recv(chan, sendersAlive) ==
    IF chan # <<>> THEN [tag |-> "Ok", msg |-> <<Head(chan)>>]
    ELSE IF sendersAlive THEN [tag |-> "Empty", msg |-> <<>>]
    ELSE [tag |-> "Disconnected", msg |-> <<>>]

\* Sender::send fails exactly when the receiver has been dropped.
\* Variant: the failure of a send is ignored.
SendIgnoresDrop(receiverDropped) == FALSE

SendFails(receiverDropped) == receiverDropped

NewsReportConfig(cats, secs) ==
    [selected_categories |-> cats, polling_interval |-> secs]

Last(s) == s[Len(s)]

(* ----------------------------- the View ------------------------------- *)
\* ui.checkbox over a copy of the flags: a clicked box flips.
checkboxes(flags, clicks) ==
    [i \in Categories |-> IF i \in clicks THEN ~flags[i] ELSE flags[i]]

\* Variant: the dragged value is taken as it is.
SliderUnclamped(value, drag) == IF drag = NoDrag THEN value ELSE drag[1]

\* egui::Slider::new(&mut v, 60..=3600): the dragged value, kept in range.
Slider(value, drag) ==
    IF drag = NoDrag THEN value
    ELSE IF drag[1] < SliderMin THEN SliderMin
    ELSE IF drag[1] > SliderMax THEN SliderMax
    ELSE drag[1]

\* Variant: the counter is advanced before the flag is read.
SelectedNamesMisaligned(flags) ==
    LET on == SelectSeq(all_Categories, LAMBDA i : flags[(i % NumCategories) + 1])
    IN  [k \in 1..Len(on) |-> to_string(on[k])]

\* The loop that collects the names of the categories whose flag is set.
SelectedNames(flags) ==
    LET on == SelectSeq(all_Categories, LAMBDA i : flags[i])
    IN  [k \in 1..Len(on) |-> to_string(on[k])]

\* The Configuration show_menu builds from the View's state.
BuildConfig(flags, secs) == NewsReportConfig(SelectedNames(flags), secs)

\* Variant: the Configuration is sent whether or not a control changed.
UpdateAlways(flags, secs, newFlags, newSecs) == TRUE

\* is_update_required after both sub-menus ran.
UpdateRequired(flags, secs, newFlags, newSecs) ==
    newFlags # flags \/ newSecs # secs

\* The Poller's receiver to_news lives as long as the Poller thread.
PollerTerminated == pc = "panicked"

\* Variant: the batch is appended to the displayed list.
ApplyBatchMerge(list, batch) == list \o batch.articles

\* The list after a batch was taken from the channel.
ApplyBatch(list, batch) == batch.articles

\* Variant: a closed batch channel is an error that ends the main thread.
OnRecvErrUnwrap(m, r) == IF r.tag = "Disconnected" THEN "panicked" ELSE m

\* The `_ => {}` arm of the View's match: the main thread goes on, whatever
\* the error (Empty or Disconnected).
OnRecvErr(m, r) == m

\* Variant: recv() in place of try_recv(): the frame waits for a batch.
ViewRecvBlocking ==
    /\ batchChan # <<>>
    /\ list_of_articles' = ApplyBatch(list_of_articles, Head(batchChan))
    /\ received' = Append(received, Head(batchChan))
    /\ batchChan' = Tail(batchChan)
    /\ UNCHANGED main_pc

\* Variant: the newest pending batch is taken and the older ones are dropped.
ViewRecvNewest ==
    /\ IF batchChan # <<>>
       THEN /\ list_of_articles' = ApplyBatch(list_of_articles, Last(batchChan))
            /\ received' = Append(received, Last(batchChan))
            /\ batchChan' = <<>>
       ELSE UNCHANGED <<list_of_articles, received, batchChan>>
    /\ UNCHANGED main_pc

\* self.channel_to_gui.try_recv() and the match on it.
ViewRecv ==
    LET r == try_recv(batchChan, ~PollerTerminated)
    IN  IF r.tag = "Ok"
        THEN /\ list_of_articles' = ApplyBatch(list_of_articles, r.msg[1])
             /\ received' = Append(received, r.msg[1])
             /\ batchChan' = Tail(batchChan)
             /\ UNCHANGED main_pc
        ELSE /\ main_pc' = OnRecvErr(main_pc, r)
             /\ UNCHANGED <<list_of_articles, received, batchChan>>

\* One frame: NewsReports::update, with show_menu.
\* settings: the Settings menu is open; clicks, drag: what the user did in it.
ViewFrame(settings, clicks, drag) ==
    /\ main_pc = "run_native"
    /\ LET newFlags == IF settings THEN checkboxes(category_flag, clicks)
                       ELSE category_flag
           newSecs == IF settings THEN Slider(polling_interval, drag)
                      ELSE polling_interval
           update == UpdateRequired(category_flag, polling_interval, newFlags, newSecs)
       IN  /\ category_flag' = newFlags
           /\ polling_interval' = newSecs
           /\ view_ran' = TRUE
           /\ IF update /\ SendFails(PollerTerminated)
              THEN \* send(..).unwrap() panics in the main thread
                   /\ main_pc' = "panicked"
                   /\ UNCHANGED <<cfgChan, sentCfgs, list_of_articles, received,
                                  batchChan>>
              ELSE /\ IF update
                      THEN /\ Len(sentCfgs) < MaxConfigSends
                           /\ cfgChan' = Append(cfgChan, BuildConfig(newFlags, newSecs))
                           /\ sentCfgs' = Append(sentCfgs, BuildConfig(newFlags, newSecs))
                      ELSE UNCHANGED <<cfgChan, sentCfgs>>
                   /\ ViewRecv
    /\ UNCHANGED <<pollerVars, api_key, sentBatches>>

\* The window is closed: run_native returns, the app (and its receiver
\* to_gui) is dropped, and main goes on to join the Poller.
CloseWindow ==
    /\ main_pc = "run_native"
    /\ main_pc' = "join"
    /\ UNCHANGED <<viewVars, pollerVars, cfgChan, batchChan, api_key, sentCfgs,
                   sentBatches, received, view_ran>>

\* Variant: the result of join is unwrapped, and the Poller's panic is
\* raised again in main.
AfterJoinUnwrap == "panicked"

\* The result of join goes into _res and main returns.
AfterJoin == "exited"

\* news_thread_handle.join() returns once the Poller thread has ended; the
\* result is dropped and main returns.
Join ==
    /\ main_pc = "join"
    /\ PollerTerminated
    /\ main_pc' = AfterJoin
    /\ UNCHANGED <<viewVars, pollerVars, cfgChan, batchChan, api_key, sentCfgs,
                   sentBatches, received, view_ran>>

(* ---------------------------- the Poller ------------------------------ *)
ProcessAlive == main_pc \in {"run_native", "join"}
\* Variant: the app's receiver outlives the window.
ReceiverKept == FALSE

\* The View's receiver to_gui lives until the app is dropped.
ViewReceiverDropped == main_pc # "run_native"

\* The bound on the cycles explored: a cycle may begin while fewer than
\* MaxCycles have, and once more after the window was closed.
MayBeginCycle == cycles < MaxCycles \/ (main_pc = "join" /\ cycles <= MaxCycles)

Op(name, cats, secs) == [op |-> name, cats |-> cats, secs |-> secs]

\* Variant: the received categories are taken, the old interval is kept.
AfterTryRecvMerge(cfg, chan) ==
    IF chan # <<>>
    THEN [Head(chan) EXCEPT !.polling_interval = cfg.polling_interval]
    ELSE cfg

\* Variant: the newest pending Configuration is taken.
AfterTryRecvNewest(cfg, chan) == IF chan # <<>> THEN Last(chan) ELSE cfg

\* The sender from_gui stays in main's frame until main returns.
ConfigSendersAlive == main_pc \in {"run_native", "join"}

\* The Poller's match on the result of to_news.try_recv(): Ok replaces the
\* configuration, the `_ => {}` arm (Empty or Disconnected) keeps it.
PollerMatch(cfg, r) == IF r.tag = "Ok" THEN r.msg[1] ELSE cfg

\* The configuration after the match on to_news.try_recv().
AfterTryRecv(cfg, chan) == PollerMatch(cfg, try_recv(chan, ConfigSendersAlive))

\* Variant: a missing key is replaced by an empty one.
KeyDefaulted(key) == FALSE

\* get_articles panics when NEWS_API_KEY is not in the environment.
KeyMissing(key) == ~key

\* Variant: one category parameter is written, for the first category only.
FormatCategoriesFirstOnly(list) ==
    IF list = <<>> THEN <<>> ELSE <<"&category=", list[1]>>

\* The loop over list_of_desired_categories: "&category={}" for each element.
RECURSIVE FormatCategories(_)
FormatCategories(list) ==
    IF list = <<>> THEN <<>>
    ELSE <<"&category=", Head(list)>> \o FormatCategories(Tail(list))

\* query_addr, as the pieces the format! puts together.
QueryAddr(list) ==
    <<"https://newsapi.org/v2/top-headlines?country=gb">>
        \o FormatCategories(list) \o <<"&apiKey=", "NEWS_API_KEY">>


\* Variant: a panic of the Poller thread ends the process.
PollerPanicAborts(m) == "exited"

\* What a panic of the Poller thread does to the main thread: nothing, the
\* panic unwinds the spawned thread only.
PollerPanic(m) == m

\* Variant: the Poller sleeps for its starting interval.
SleepSecsStart(cfg) == PollerStartInterval

\* The seconds the Poller sleeps for.
SleepSecs(cfg) == cfg.polling_interval

\* main.rs:174-179
PollerTryRecv ==
    /\ ProcessAlive
    /\ pc = "try_recv"
    /\ MayBeginCycle
    /\ cycles' = cycles + 1
    /\ default_news_config' = AfterTryRecv(default_news_config, cfgChan)
    /\ cfgChan' = IF cfgChan # <<>> THEN Tail(cfgChan) ELSE cfgChan
    /\ cycleOps' = <<Op("try_recv", default_news_config'.selected_categories,
                        default_news_config'.polling_interval)>>
    /\ cycleStartSent' = Len(sentCfgs)
    /\ pc' = "get_articles"
    /\ UNCHANGED <<viewVars, batchChan, articles, query_addr, main_pc, api_key,
                   sentCfgs, sentBatches, received, view_ran>>

\* main.rs:181, get_articles (main.rs:49-67)
PollerFetch ==
    /\ ProcessAlive
    /\ pc = "get_articles"
    /\ IF KeyMissing(api_key)
       THEN \* panic!("News API key couldn't be found in the environment")
            /\ pc' = "panicked"
            /\ main_pc' = PollerPanic(main_pc)
            /\ UNCHANGED <<articles, cycleOps, query_addr>>
       ELSE /\ query_addr' = QueryAddr(default_news_config.selected_categories)
            /\ \E r \in {Ok(b) : b \in Responses} \cup {Err} : articles' = r
            /\ cycleOps' = Append(cycleOps,
                   Op("get_articles", default_news_config.selected_categories, 0))
            /\ pc' = "send"
            /\ UNCHANGED main_pc
    /\ UNCHANGED <<viewVars, cfgChan, batchChan, default_news_config, api_key,
                   cycles, cycleStartSent, sentCfgs, sentBatches, received, view_ran>>

\* main.rs:183
PollerSend ==
    /\ ProcessAlive
    /\ pc = "send"
    /\ IF ~articles.ok \/ SendFails(ViewReceiverDropped)
       THEN \* articles.unwrap() or send(..).unwrap() panics
            /\ pc' = "panicked"
            /\ main_pc' = PollerPanic(main_pc)
            /\ UNCHANGED <<batchChan, sentBatches, cycleOps>>
       ELSE /\ batchChan' = Append(batchChan, articles.val)
            /\ sentBatches' = Append(sentBatches, articles.val)
            /\ cycleOps' = Append(cycleOps, Op("send", <<>>, 0))
            /\ pc' = "sleep"
            /\ UNCHANGED main_pc
    /\ UNCHANGED <<viewVars, cfgChan, default_news_config, articles, query_addr,
                   api_key, cycles, cycleStartSent, sentCfgs, received, view_ran>>

\* main.rs:185
PollerSleep ==
    /\ ProcessAlive
    /\ pc = "sleep"
    /\ cycleOps' = Append(cycleOps, Op("sleep", <<>>, SleepSecs(default_news_config)))
    /\ pc' = "try_recv"
    /\ UNCHANGED <<viewVars, cfgChan, batchChan, default_news_config, articles,
                   query_addr, main_pc, api_key, cycles, cycleStartSent, sentCfgs,
                   sentBatches, received, view_ran>>

(* ------------------------------- system ------------------------------- *)
Init ==
    /\ category_flag = [i \in Categories |-> TRUE]
    /\ polling_interval = ViewDefaultInterval
    /\ list_of_articles = <<>>
    /\ cfgChan = <<>>
    /\ batchChan = <<>>
    /\ default_news_config = NewsReportConfig(<<>>, PollerStartInterval)
    /\ articles = Err
    /\ query_addr = <<>>
    /\ pc = "try_recv"
    /\ main_pc = "run_native"
    /\ api_key \in BOOLEAN
    /\ cycles = 0
    /\ cycleOps = <<>>
    /\ cycleStartSent = 0
    /\ sentCfgs = <<>>
    /\ sentBatches = <<>>
    /\ received = <<>>
    /\ view_ran = FALSE

Frame ==
    \E settings \in BOOLEAN, clicks \in ClickChoices, drag \in DragChoices :
        ViewFrame(settings, clicks, drag)

Next ==
    \/ Frame
    \/ CloseWindow
    \/ Join
    \/ PollerTryRecv
    \/ PollerFetch
    \/ PollerSend
    \/ PollerSleep

Spec == Init /\ [][Next]_vars

\* The OS schedules both threads: a Poller step that can be taken is taken
\* (the sleep ends, the fetch returns or fails), and so is the return of join.
FairSpec ==
    /\ Spec
    /\ WF_vars(PollerTryRecv)
    /\ WF_vars(PollerFetch)
    /\ WF_vars(PollerSend)
    /\ WF_vars(PollerSleep)
    /\ WF_vars(Join)

(* --------------------- the query, for every selection ------------------ *)
\* The View holds any selection of the seven categories, and the
\* Configuration built from it is pending for the Poller.
InitQuery ==
    /\ category_flag \in [Categories -> BOOLEAN]
    /\ polling_interval = ViewDefaultInterval
    /\ list_of_articles = <<>>
    /\ cfgChan = <<BuildConfig(category_flag, polling_interval)>>
    /\ batchChan = <<>>
    /\ default_news_config = NewsReportConfig(<<>>, PollerStartInterval)
    /\ articles = Err
    /\ query_addr = <<>>
    /\ pc = "try_recv"
    /\ main_pc = "run_native"
    /\ api_key = TRUE
    /\ cycles = 0
    /\ cycleOps = <<>>
    /\ cycleStartSent = 0
    /\ sentCfgs = cfgChan
    /\ sentBatches = <<>>
    /\ received = <<>>
    /\ view_ran = TRUE

\* The Poller takes the Configuration and builds the query for it.
NextQuery ==
    \/ PollerTryRecv
    \/ PollerFetch

SpecQuery == InitQuery /\ [][NextQuery]_vars

(* ------------------------------ properties ---------------------------- *)
Range(s) == {s[i] : i \in 1..Len(s)}
\* The names of the categories whose toggle is on.
OnNames(flags) == {to_string(c) : c \in {d \in Categories : flags[d]}}
\* The View's default Configuration: every category, 600 seconds.
ViewDefaultConfig ==
    NewsReportConfig([i \in Categories |-> to_string(i)], ViewDefaultInterval)

\* C1: the displayed list is the initial empty list or exactly the articles
\* of the batch the View most recently took from the channel, which is one
\* whole batch the Poller sent; never a mix of two batches.
C1_DisplayedIsLastReceived ==
    /\ list_of_articles = IF received = <<>> THEN <<>> ELSE Last(received).articles
    /\ list_of_articles \in {<<>>} \cup {b.articles : b \in Range(sentBatches)}

\* C1 witness: the View has replaced one displayed batch by a different one.
C1_Witness ==
    /\ Len(received) = 2
    /\ received[1] # received[2]
    /\ list_of_articles = received[2].articles

\* C2: the fetch of a Poller cycle uses the categories of the latest
\* Configuration the View had sent when the cycle began (the check at the
\* start of the cycle having drained the pending updates).
C2_CycleUsesLatestSent ==
    (Len(cycleOps) >= 2 /\ cycleStartSent > 0)
        => cycleOps[2].cats = sentCfgs[cycleStartSent].selected_categories

\* C3: a frame that finds batches pending displays the newest batch sent so
\* far and leaves no batch queued.
C3_FrameShowsNewest ==
    [][(batchChan # <<>> /\ received' # received)
          => /\ list_of_articles' = Last(sentBatches).articles
             /\ batchChan' = <<>>]_vars

\* C4: once the View has run a frame, it has sent a Configuration, and the
\* first one it sent is its default (all 7 categories, 600 seconds), whether
\* or not the user edited anything.
C4_DefaultSentAtStartup ==
    view_ran => (sentCfgs # <<>> /\ sentCfgs[1] = ViewDefaultConfig)

\* The last fetch of the Poller returned an error (transport or decode).
FetchFailed ==
    /\ cycleOps # <<>>
    /\ Last(cycleOps).op = "get_articles"
    /\ ~articles.ok

\* C5 (as stated): once a fetch has failed and the Poller has terminated, the
\* process is gone: the View runs no further frame.
C5_NoFrameAfterFetchFailure ==
    [][(FetchFailed /\ PollerTerminated)
          => UNCHANGED <<category_flag, polling_interval, list_of_articles,
                         received, view_ran>>]_vars

\* C5 (amended): a failed fetch terminates the Poller thread only. The Poller's
\* next step ends it without sending a batch and leaves the main thread where
\* it is; while the window is open the View is still running and a frame can
\* execute; the process exits only by the window being closed (then join
\* returns) or by a failed Configuration send.
C5_FetchFailureEndsPollerOnly ==
    /\ [][(FetchFailed /\ pc = "send" /\ pc' # pc)
             => /\ pc' = "panicked"
                /\ main_pc' = main_pc
                /\ UNCHANGED <<batchChan, sentBatches>>]_vars
    /\ [][(FetchFailed /\ PollerTerminated)
             => /\ pc' = "panicked"
                /\ UNCHANGED <<sentBatches, cycles>>
                /\ (main_pc' = "exited") => (main_pc = "join")
                /\ (main_pc' = "panicked") =>
                      /\ main_pc = "run_native"
                      /\ sentCfgs' = sentCfgs
                      /\ <<category_flag, polling_interval>>'
                            # <<category_flag, polling_interval>>]_vars
    /\ []((FetchFailed /\ PollerTerminated /\ main_pc = "run_native")
             => ENABLED ViewFrame(FALSE, {}, NoDrag))

\* C5 witness: a fetch failed, the Poller is gone, and the View, still
\* running, has since taken a batch that was queued.
C5_Witness ==
    /\ FetchFailed
    /\ PollerTerminated
    /\ main_pc = "run_native"
    /\ received # <<>>
    /\ received = sentBatches

\* The inputs of a frame that the bound on sent Configurations admits.
FrameInputs ==
    {in \in [settings : BOOLEAN, clicks : ClickChoices, drag : DragChoices] :
        Len(sentCfgs) < MaxConfigSends \/ ~in.settings}

\* C6: while the View runs, a frame can execute for every input, whatever the
\* state of the batch channel and of the Poller; it never waits, and it leaves
\* the View running unless a Configuration send fails (the Poller has
\* terminated and a control changed).
C6_FrameNeverWaits ==
    main_pc = "run_native" =>
        \A in \in FrameInputs :
            /\ ENABLED ViewFrame(in.settings, in.clicks, in.drag)
            /\ (~PollerTerminated \/ ~in.settings) =>
                  ENABLED (/\ ViewFrame(in.settings, in.clicks, in.drag)
                           /\ main_pc' = "run_native")

\* C6 witness: the View has run and can run with nothing to receive and the
\* Poller terminated.
C6_Witness ==
    /\ main_pc = "run_native"
    /\ view_ran
    /\ batchChan = <<>>
    /\ PollerTerminated
    /\ received # <<>>

\* The order of the operations of one Poller cycle.
CycleOrder == <<"try_recv", "get_articles", "send", "sleep">>

\* C7: a Poller cycle is one Configuration check, one fetch with the
\* categories in force after the check, one send of the fetched batch, one
\* sleep of the interval in force after the check, in this order; a batch is
\* sent only after a successful fetch of the same cycle, one per cycle.
C7_CycleOrder ==
    /\ Len(cycleOps) <= 4
    /\ \A i \in 1..Len(cycleOps) : cycleOps[i].op = CycleOrder[i]
    /\ pc = "try_recv" => Len(cycleOps) = IF cycles = 0 THEN 0 ELSE 4
    /\ pc = "get_articles" => Len(cycleOps) = 1
    /\ pc = "send" => Len(cycleOps) = 2
    /\ pc = "sleep" => Len(cycleOps) = 3
    /\ pc = "panicked" => Len(cycleOps) \in {1, 2}
    /\ Len(cycleOps) >= 2 => cycleOps[2].cats = cycleOps[1].cats
    /\ Len(cycleOps) >= 3 => articles.ok /\ Last(sentBatches) = articles.val
    /\ Len(cycleOps) >= 4 => cycleOps[4].secs = cycleOps[1].secs
    /\ Len(sentBatches) = IF Len(cycleOps) >= 3 THEN cycles
                          ELSE IF cycles = 0 THEN 0 ELSE cycles - 1

\* C7 witness: a cycle that received a Configuration has fetched, sent and
\* slept with it.
C7_Witness ==
    /\ Len(cycleOps) = 4
    /\ sentCfgs # <<>>
    /\ cycleOps[1].cats = sentCfgs[1].selected_categories
    /\ cycleOps[4].secs = sentCfgs[1].polling_interval
    /\ cycleOps[4].secs # PollerStartInterval

\* C8: the Poller's check replaces its configuration by the received one in
\* both fields when it finds one, and leaves it unchanged when it finds none.
C8_TryRecvReplaces ==
    [][(pc = "try_recv" /\ pc' # pc)
          => IF cfgChan # <<>>
             THEN /\ default_news_config'.selected_categories
                         = Head(cfgChan).selected_categories
                  /\ default_news_config'.polling_interval
                         = Head(cfgChan).polling_interval
                  /\ DOMAIN default_news_config' = DOMAIN Head(cfgChan)
                  /\ cfgChan' = Tail(cfgChan)
             ELSE default_news_config' = default_news_config /\ cfgChan' = cfgChan
      ]_vars

\* C8 witness: the Poller holds a received Configuration that differs from
\* its previous one in both fields, and has also run a check that found none.
C8_Witness ==
    /\ pc = "get_articles"
    /\ cycles = 2
    /\ sentCfgs # <<>>
    /\ cfgChan = <<>>
    /\ Len(sentCfgs) = 1
    /\ default_news_config = sentCfgs[1]

\* The position of a category name in the enumeration.
IndexOf(name) == CHOOSE c \in Categories : to_string(c) = name

\* A frame step that leaves the View running.
FrameStep ==
    /\ main_pc = "run_native"
    /\ main_pc' = "run_native"
    /\ <<category_flag, polling_interval, list_of_articles, received, sentCfgs,
         view_ran>>' # <<category_flag, polling_interval, list_of_articles,
                         received, sentCfgs, view_ran>>

\* C9: a frame sends a Configuration exactly when a settings control changed
\* value in it; the one sent holds the View's toggles and interval after the
\* frame; with only the interval changed it holds the same category set and
\* the new interval; and it differs from the Configuration sent before it.
C9_SendIffChanged ==
    [][FrameStep =>
         LET changed == \/ category_flag' # category_flag
                        \/ polling_interval' # polling_interval
             sent == sentCfgs' # sentCfgs
         IN  /\ sent <=> changed
             /\ sent =>
                  /\ Len(sentCfgs') = Len(sentCfgs) + 1
                  /\ SubSeq(sentCfgs', 1, Len(sentCfgs)) = sentCfgs
                  /\ cfgChan' = Append(cfgChan, Last(sentCfgs'))
                  /\ Range(Last(sentCfgs').selected_categories)
                        = OnNames(category_flag')
                  /\ Last(sentCfgs').polling_interval = polling_interval'
                  /\ (category_flag' = category_flag) =>
                        /\ Range(Last(sentCfgs').selected_categories)
                              = OnNames(category_flag)
                        /\ Last(sentCfgs').polling_interval # polling_interval
                  /\ (sentCfgs # <<>>) => Last(sentCfgs') # Last(sentCfgs)
             /\ ~sent => cfgChan' = cfgChan
      ]_vars

\* C9 witness: the second Configuration sent changed the interval only, and
\* the View's state equals it.
C9_Witness ==
    /\ Len(sentCfgs) = 2
    /\ sentCfgs[1].selected_categories = sentCfgs[2].selected_categories
    /\ sentCfgs[1].polling_interval # sentCfgs[2].polling_interval
    /\ Range(sentCfgs[2].selected_categories) = OnNames(category_flag)
    /\ sentCfgs[2].polling_interval = polling_interval
    /\ main_pc = "run_native"

\* C10: a frame that toggles one category sends a Configuration that lists
\* exactly the categories on after the toggle, each once, in enumeration
\* order; its set differs from the prior selection by the toggled one only.
C10_ToggleOne ==
    [][(FrameStep /\ Cardinality({c \in Categories :
                                     category_flag'[c] # category_flag[c]}) = 1)
         => LET c == CHOOSE d \in Categories : category_flag'[d] # category_flag[d]
                cats == Last(sentCfgs').selected_categories
                set == Range(cats)
            IN  /\ Len(sentCfgs') = Len(sentCfgs) + 1
                /\ set = OnNames(category_flag')
                /\ \A i, j \in 1..Len(cats) :
                      i < j => IndexOf(cats[i]) < IndexOf(cats[j])
                /\ (set \ OnNames(category_flag)) \cup (OnNames(category_flag) \ set)
                      = {to_string(c)}
      ]_vars

\* C10 witness: Sports was switched off and the Configuration sent lists the
\* other six, in order.
C10_Witness ==
    /\ ~category_flag[6]
    /\ sentCfgs # <<>>
    /\ Last(sentCfgs).selected_categories
          = <<"Business", "Entertainment", "General", "Health", "Science",
              "Technology">>

\* C11: every Configuration the View has sent has a polling interval within
\* [60, 3600] seconds.
C11_SentIntervalInRange ==
    \A i \in 1..Len(sentCfgs) :
        /\ sentCfgs[i].polling_interval >= SliderMin
        /\ sentCfgs[i].polling_interval <= SliderMax

\* C11 witness: the slider was dragged below the range and above it, and the
\* two Configurations sent hold the ends of the range.
C11_Witness ==
    /\ Len(sentCfgs) = 2
    /\ {sentCfgs[1].polling_interval, sentCfgs[2].polling_interval}
          = {SliderMin, SliderMax}

\* The Poller ended although the key is set and no fetch failed.
PollerEndedBySend ==
    /\ PollerTerminated
    /\ api_key
    /\ ~FetchFailed

\* C12 (as stated): closing the window does not stop the Poller: with the key
\* set and no fetch failing, the Poller is still running while main waits in
\* join.
C12_CloseDoesNotStopPoller ==
    (main_pc = "join" /\ api_key /\ ~FetchFailed) => ~PollerTerminated

\* C12 (amended): the Poller's loop ends only by a panic: by a missing key, a
\* failed fetch, or a send after the window was closed. While the window is
\* open and neither of the first two happened the Poller is running; once
\* the window is closed it sends no further batch and does not reach another
\* sleep: its next send ends it.
C12_PollerEndsOnlyByPanic ==
    /\ [](PollerTerminated =>
             (~api_key \/ FetchFailed \/ main_pc \in {"join", "exited"}))
    /\ []((main_pc = "run_native" /\ ~PollerTerminated /\ MayBeginCycle)
             => ENABLED (PollerTryRecv \/ PollerFetch \/ PollerSend \/ PollerSleep))
    /\ [][(main_pc # "run_native")
             => /\ sentBatches' = sentBatches
                /\ pc' = "sleep" => pc = "sleep"
                /\ (pc = "send" /\ pc' # pc) => pc' = "panicked"]_vars

\* C12 witness: the window was closed and the Poller's next send ended it.
C12_Witness ==
    /\ main_pc = "join"
    /\ PollerEndedBySend
    /\ Len(cycleOps) = 2
    /\ articles.ok
    /\ sentBatches # <<>>

\* C13: a closed channel is handled like an empty one. With the Poller
\* terminated and nothing queued, a frame leaves the displayed list as it is
\* and the View running, and cannot end in an error; the Poller's match keeps
\* its configuration on Disconnected exactly as on Empty.
C13_ClosedIsNothingToDo ==
    /\ \A cfg \in {default_news_config} \cup Range(sentCfgs) :
          /\ PollerMatch(cfg, try_recv(<<>>, FALSE)) = cfg
          /\ PollerMatch(cfg, try_recv(<<>>, TRUE)) = cfg
    /\ (main_pc = "run_native" /\ batchChan = <<>> /\ PollerTerminated)
          => /\ ENABLED (/\ ViewFrame(FALSE, {}, NoDrag)
                         /\ main_pc' = "run_native"
                         /\ list_of_articles' = list_of_articles)
             /\ ~ENABLED (/\ ViewFrame(FALSE, {}, NoDrag)
                          /\ \/ main_pc' # "run_native"
                             \/ list_of_articles' # list_of_articles)

\* C13 witness: the Poller has terminated, the batch channel is drained and
\* closed, and the View is running with a batch on display.
C13_Witness ==
    /\ main_pc = "run_native"
    /\ PollerTerminated
    /\ batchChan = <<>>
    /\ try_recv(batchChan, ~PollerTerminated).tag = "Disconnected"
    /\ list_of_articles # <<>>
    /\ view_ran

\* C14: a send to a dropped receiver ends the sender. With the Poller
\* terminated, a frame in which a control changes aborts the View and sends
\* nothing; with the window closed, the Poller's send ends the Poller and
\* sends nothing.
C14_SendToDroppedIsFatal ==
    /\ [][(main_pc = "run_native" /\ pc = "panicked"
             /\ <<category_flag, polling_interval>>'
                   # <<category_flag, polling_interval>>)
             => /\ main_pc' = "panicked"
                /\ UNCHANGED <<sentCfgs, cfgChan>>]_vars
    /\ [][(main_pc = "join" /\ pc = "send" /\ pc' # pc)
             => /\ pc' = "panicked"
                /\ UNCHANGED <<sentBatches, batchChan>>]_vars

\* C14 witness: the View was aborted by a Configuration send after the Poller
\* had terminated.
C14_Witness ==
    /\ main_pc = "panicked"
    /\ pc = "panicked"
    /\ sentCfgs # <<>>
    /\ BuildConfig(category_flag, polling_interval) # Last(sentCfgs)

\* C15: with the key absent the Poller ends in its first cycle, before any
\* request is built or issued and before any batch is sent; it begins no
\* second cycle, and the View's list stays empty.
C15_NoKeyNoFetch ==
    ~api_key =>
        /\ cycles <= 1
        /\ pc \in {"try_recv", "get_articles", "panicked"}
        /\ pc = "try_recv" => cycles = 0
        /\ Len(cycleOps) <= 1
        /\ query_addr = <<>>
        /\ ~articles.ok
        /\ sentBatches = <<>>
        /\ batchChan = <<>>
        /\ received = <<>>
        /\ list_of_articles = <<>>

\* C15 witness: the key is absent, the Poller has ended in its first cycle,
\* and the View has run and sent a Configuration that no one will take.
C15_Witness ==
    /\ ~api_key
    /\ pc = "panicked"
    /\ cycles = 1
    /\ view_ran
    /\ cfgChan # <<>>
    /\ main_pc = "run_native"

\* The number of category parameters of a query that carry this name.
CategoryParamCount(q, name) ==
    Cardinality({i \in 1..(Len(q) - 1) : q[i] = "&category=" /\ q[i + 1] = name})

\* C16: the query built for a selection holds exactly one category parameter
\* for each selected category, none for an unselected one, and no other
\* category parameter (none at all for the empty selection).
C16_OneParamPerSelected ==
    (pc = "send") =>
        /\ \A c \in Categories :
              CategoryParamCount(query_addr, to_string(c))
                 = IF category_flag[c] THEN 1 ELSE 0
        /\ Cardinality({i \in 1..Len(query_addr) : query_addr[i] = "&category="})
              = Cardinality({c \in Categories : category_flag[c]})
        /\ Len(query_addr) = 3 + 2 * Cardinality({c \in Categories : category_flag[c]})

\* C16 witness: the query for the selection {Business, General, Science}.
C16_Witness ==
    /\ pc = "send"
    /\ {c \in Categories : category_flag[c]} = {1, 3, 5}
    /\ query_addr = <<"https://newsapi.org/v2/top-headlines?country=gb",
                      "&category=", "Business", "&category=", "General",
                      "&category=", "Science", "&apiKey=", "NEWS_API_KEY">>

\* The number of Configurations the Poller has taken from the channel.
ConfigsTaken == Len(sentCfgs) - Len(cfgChan)

\* C17: the Poller's configuration is its starting one or the Configuration
\* it took last; it takes the sent Configurations in the order sent, one per
\* cycle at most, skipping none; its interval is 1 or within [60, 3600].
C17_PollerConfigIsSentInOrder ==
    /\ []( /\ ConfigsTaken >= 0
           /\ ConfigsTaken <= cycles
           /\ cfgChan = SubSeq(sentCfgs, ConfigsTaken + 1, Len(sentCfgs))
           /\ default_news_config =
                 IF ConfigsTaken = 0
                 THEN NewsReportConfig(<<>>, PollerStartInterval)
                 ELSE sentCfgs[ConfigsTaken]
           /\ \/ default_news_config.polling_interval = PollerStartInterval
              \/ /\ default_news_config.polling_interval >= SliderMin
                 /\ default_news_config.polling_interval <= SliderMax )
    /\ [][ /\ ConfigsTaken' <= ConfigsTaken + 1
           /\ ConfigsTaken' >= ConfigsTaken
           /\ ConfigsTaken' # ConfigsTaken => cycles' = cycles + 1 ]_vars

\* C17 witness: two Configurations were pending, and the Poller took the
\* first in one cycle and the second in the next.
C17_Witness ==
    /\ Len(sentCfgs) = 2
    /\ cycleStartSent = 2
    /\ cycles = 2
    /\ ConfigsTaken = 2
    /\ default_news_config = sentCfgs[2]
    /\ sentCfgs[1].selected_categories # sentCfgs[2].selected_categories

\* C18: the View takes the batches in the order sent, one per frame at most,
\* each once, skipping none: what it has displayed is a prefix of what was
\* sent, and the rest is pending in the channel, however many they are.
C18_BatchesAppliedInOrder ==
    /\ []( /\ Len(received) <= Len(sentBatches)
           /\ received = SubSeq(sentBatches, 1, Len(received))
           /\ batchChan = SubSeq(sentBatches, Len(received) + 1, Len(sentBatches)) )
    /\ [][ /\ Len(received') <= Len(received) + 1
           /\ SubSeq(received', 1, Len(received)) = received ]_vars

\* C18 witness: every batch of the cycles explored is pending, and the View,
\* which has run, has displayed none of them.
C18_Witness ==
    /\ Len(batchChan) >= MaxCycles
    /\ Len(batchChan) >= 2
    /\ received = <<>>
    /\ list_of_articles = <<>>
    /\ view_ran
    /\ main_pc = "run_native"

\* How far the Poller is from the send that follows a closed window.
PollerRank(p) ==
    CASE p = "sleep" -> 4
      [] p = "try_recv" -> 3
      [] p = "get_articles" -> 2
      [] p = "send" -> 1
      [] p = "panicked" -> 0

\* C19: once the window is closed the process exits: the Poller completes at
\* most the sleep it is in and one more check and fetch, its send fails and
\* ends it, and join returns, the Poller's failure being ignored (main
\* returns, it does not panic).
C19_CloseLeadsToExit ==
    /\ (main_pc = "join") ~> (main_pc = "exited" /\ PollerTerminated)
    /\ [][(main_pc = "join") =>
             /\ PollerRank(pc') <= PollerRank(pc)
             /\ sentBatches' = sentBatches
             /\ main_pc' \in {"join", "exited"}]_vars

\* C19 witness: the process has exited after the window was closed while the
\* Poller slept: the Poller woke, fetched once more, and its send ended it.
C19_Witness ==
    /\ main_pc = "exited"
    /\ PollerEndedBySend
    /\ cycles = 2
    /\ Len(sentBatches) = 1
    /\ articles.ok
    /\ articles.val # Last(sentBatches)

=============================================================================
